---- MODULE Spec2Model ----
(***************************************************************************)
(* A model of the tbi-agents backend: the streaming response formatter     *)
(* (agents/helpers/stream_helper.py), the chat endpoint (agents/views.py),  *)
(* the Design A supervisor graph (agents/services/supervisor.py with the   *)
(* grounding middleware of agents/services/message_agent.py) and the       *)
(* portfolio ingestion job (agents/managments/ingest_portfolio.py) and the *)
(* email tools (agents/services/email_agent.py).                           *)
(*                                                                         *)
(* Each component has its own variables, its own initial condition and its *)
(* own next-state relation; a component's specification pins the other     *)
(* components' variables at their rest values.                             *)
(***************************************************************************)
EXTENDS Integers, Sequences, FiniteSets, TLC

VARIABLES
    \* ---- stream_generator (stream_helper.py) ----
    gen_pc,             \* position of the generator: "idle", "running", "done"
    agent_stream,       \* what agent.stream() has done: "open", "completed", "raised"
    steps,              \* the chunks agent.stream() has yielded so far, in order
    frames,             \* the frames the generator has yielded so far, in order
    prompt_tokens,      \* local prompt_tokens
    completion_tokens,  \* local completion_tokens
    \* ---- chat_asistance (views.py), one entry per request ----
    req_pc,             \* position of each request in the view and in its response stream
    session_id,         \* request.POST.get("session_id") of each request
    conn,               \* the connection bound to each request's checkpointer (0: none)
    connection_pool,    \* for each pooled connection, the request that has acquired it (0: idle)
    did,                \* what each request has done so far: model, connection, graph, stream
    raised_in,          \* the call of the view that raised, per request ("none" if none did)
    response,           \* what the view handed back to Django, per request
    stream_pos,         \* number of graph steps each request's response stream has run
    \* ---- Design A supervisor graph (supervisor.py), one session ----
    graph_pc,           \* the node about to run: "idle", a node name, "end", "raised"
    state,              \* the SupervisorState of the thread, as the checkpointer keeps it
    turn,               \* turns started so far
    retrieved,          \* what the retriever returned in this turn (empty if it did not run or raised)
    failed,             \* the nodes whose external call raised in this turn
    agent_context,      \* the AgentContext records passed to message_agent.invoke in this turn
    injected,           \* the system instructions inject_rag_context produced in this turn
    ran,                \* the nodes that have run in this turn, in order
    rag_calls,          \* the calls rag_executor has made in this turn, in order
    \* ---- portfolio ingestion (ingest_portfolio.py) ----
    ingest_pc,          \* the stage of load_and_process_data about to run
    taxonomy_list,      \* the list parsed from the model's output
    build_result,       \* what build_taxonomy_chunks_from_project_json gave: chunks or an error
    documents,          \* the documents convert_to_documents built in this run
    collection,         \* the documents of the project_portfolio collection
    collection_before,  \* the collection as it was when this run started
    ingest_failed,      \* the stage at which this run failed ("none" if it has not)
    runs,               \* ingestion runs started so far
    observed,           \* what the retrievals made so far found in the collection
    \* ---- email tools (email_agent.py), one tool call ----
    email_pc,           \* the step of the tool about to run
    tool_call,          \* the tool called and its arguments
    email_list,         \* the addresses the tool sends to (email_list, all_recipients)
    msg,                \* the headers of the message built last
    server,             \* what was asked of smtplib so far, in order
    sent_count,         \* local sent_count of send_bulk_email
    failed_count,       \* local failed_count of send_bulk_email
    tool_result,        \* what the tool call gave back
    \* ---- parsing of the model's output (ingest_portfolio.py) ----
    parse_pc,           \* "idle", "raw" (output received), "parsed"
    raw,                \* the model's output, stripped, as a sequence of tokens
    parse_result        \* what the parsing gave: the list or the error it raised

streamVars == <<gen_pc, agent_stream, steps, frames, prompt_tokens, completion_tokens>>

chatVars == <<req_pc, session_id, conn, connection_pool, did, raised_in, response, stream_pos>>

graphVars ==
    <<graph_pc, state, turn, retrieved, failed, agent_context, injected, ran, rag_calls>>

ingestVars ==
    <<ingest_pc, taxonomy_list, build_result, documents, collection, collection_before,
      ingest_failed, runs, observed>>

emailVars ==
    <<email_pc, tool_call, email_list, msg, server, sent_count, failed_count, tool_result>>

parseVars == <<parse_pc, raw, parse_result>>

vars == <<streamVars, chatVars, graphVars, ingestVars, emailVars, parseVars>>

\* What each component leaves alone.
nonStreamVars == <<chatVars, graphVars, ingestVars, emailVars, parseVars>>

nonChatVars == <<streamVars, graphVars, ingestVars, emailVars, parseVars>>

nonGraphVars == <<streamVars, chatVars, ingestVars, emailVars, parseVars>>

nonIngestVars == <<streamVars, chatVars, graphVars, emailVars, parseVars>>

nonEmailVars == <<streamVars, chatVars, graphVars, ingestVars, parseVars>>

nonParseVars == <<streamVars, chatVars, graphVars, ingestVars, emailVars>>

(***************************************************************************)
(* Small helpers.                                                          *)
(***************************************************************************)
Last(s) == s[Len(s)]

Min(a, b) == IF a <= b THEN a ELSE b

(***************************************************************************)
(* stream_generator                                                        *)
(***************************************************************************)
\* Longest agent stream explored.
MaxChunks == 3

\* Token counts a chunk may report.
TokenValues == {0, 1, 2}

UsageKeys == {"input_tokens", "output_tokens"}

\* usage_metadata of a chunk: a mapping holding any subset of the two keys.
\* The empty mapping stands for both None and {}: the test at line 52 is
\* false for either, and nothing else reads the value.
UsageValues == UNION {[D -> TokenValues] : D \in SUBSET UsageKeys}

\* One element of agent.stream(..., stream_mode="messages"): step[0] is the
\* message chunk, with its content and its usage_metadata.
Chunks == [content : {"tok"}, usage_metadata : UsageValues]

\* usage.get(key): None is "key not in the mapping".
HasKey(usage, key) == key \in DOMAIN usage

StreamingFrame(chunk) == [type |-> "streaming", message |-> chunk.content]

UsageFrame(p, c) ==
    [type |-> "usage", input_tokens |-> p, output_tokens |-> c, total_tokens |-> p + c]

ErrorFrame == [type |-> "error", message |-> "exc", detail |-> "traceback"]

\* Lines 52-60 for one of the two counters: the counter after a chunk whose
\* usage_metadata is `usage`, `key` being the counter's key.
TrackUsage_Sum(prev, usage, key) ==
    IF usage # << >> /\ HasKey(usage, key) THEN prev + usage[key] ELSE prev

TrackUsage(prev, usage, key) ==
    IF usage # << >> /\ HasKey(usage, key) THEN usage[key] ELSE prev

\* Lines 74-83: the except clause yields the error frame.
OnStreamError_Silent(fr) == fr

OnStreamError(fr) == Append(fr, ErrorFrame)

\* Lines 64-70: after the loop, the usage frame.
OnStreamEnd(fr, p, c) == Append(fr, UsageFrame(p, c))

StreamRest ==
    /\ gen_pc = "idle"
    /\ agent_stream = "open"
    /\ steps = << >>
    /\ frames = << >>
    /\ prompt_tokens = 0
    /\ completion_tokens = 0

\* Lines 26-31: the generator has been started; nothing is yielded yet.
StreamInit ==
    /\ gen_pc = "running"
    /\ agent_stream = "open"
    /\ steps = << >>
    /\ frames = << >>
    /\ prompt_tokens = 0
    /\ completion_tokens = 0

\* Lines 36-62: one iteration of the for loop.
StreamChunk ==
    /\ gen_pc = "running"
    /\ Len(steps) < MaxChunks
    /\ \E step \in Chunks :
        /\ steps' = Append(steps, step)
        /\ frames' = Append(frames, StreamingFrame(step))
        /\ prompt_tokens' = TrackUsage(prompt_tokens, step.usage_metadata, "input_tokens")
        /\ completion_tokens' =
               TrackUsage(completion_tokens, step.usage_metadata, "output_tokens")
    /\ UNCHANGED <<gen_pc, agent_stream>>
    /\ UNCHANGED nonStreamVars

\* Lines 64-72: agent.stream() is exhausted.
StreamComplete ==
    /\ gen_pc = "running"
    /\ agent_stream' = "completed"
    /\ frames' = OnStreamEnd(frames, prompt_tokens, completion_tokens)
    /\ gen_pc' = "done"
    /\ UNCHANGED <<steps, prompt_tokens, completion_tokens>>
    /\ UNCHANGED nonStreamVars

\* Lines 74-83: agent.stream() raises, at the first call or between chunks.
StreamRaise ==
    /\ gen_pc = "running"
    /\ agent_stream' = "raised"
    /\ frames' = OnStreamError(frames)
    /\ gen_pc' = "done"
    /\ UNCHANGED <<steps, prompt_tokens, completion_tokens>>
    /\ UNCHANGED nonStreamVars

StreamNext == StreamChunk \/ StreamComplete \/ StreamRaise


(***************************************************************************)
(* chat_asistance and the connection pool                                  *)
(***************************************************************************)
\* Concurrent requests explored.
NumRequests == 2

Requests == 1..NumRequests

\* Line 27: ConnectionPool(DB_URI, min_size=1, max_size=5)
max_size == 5

Connections == 1..max_size

\* The absent form field: request.POST.get returns None.
NoneValue == "<None>"

SessionIds == {NoneValue, "", "s1"}

\* The nodes of the supervisor graph; the checkpointer reads the thread's
\* checkpoint when the stream starts and writes one after every node.
GraphNodes == <<"intent_classifier", "rag_executor", "router", "message_agent">>

NoResponse == [kind |-> "none", status |-> 0, body |-> {}]

\* JsonResponse(body, status=status); body is the set of the JSON object's keys.
JsonResponse(body, status) == [kind |-> "json", status |-> status, body |-> body]

\* StreamingHttpResponse(stream_generator(...), content_type="text/event-stream")
StreamingHttpResponse == [kind |-> "stream", status |-> 200, body |-> {}]

\* The view raised: Django answers for it, the view returned nothing.
Propagated == [kind |-> "exception", status |-> 500, body |-> {}]

\* Line 76: `not session_id`.
SessionMissing_NoneOnly(sid) == sid = NoneValue

SessionMissing(sid) == sid = NoneValue \/ sid = ""

\* Leaving `with connection_pool.connection() as conn` gives the connection
\* back to the pool, on return and on an exception alike.
Release(pool, r) == [c \in Connections |-> IF pool[c] = r THEN 0 ELSE pool[c]]

ChatRest ==
    /\ req_pc = [r \in Requests |-> "idle"]
    /\ session_id = [r \in Requests |-> NoneValue]
    /\ conn = [r \in Requests |-> 0]
    /\ connection_pool = [c \in Connections |-> 0]
    /\ did = [r \in Requests |-> {}]
    /\ raised_in = [r \in Requests |-> "none"]
    /\ response = [r \in Requests |-> NoResponse]
    /\ stream_pos = [r \in Requests |-> 0]

\* Every request has arrived with some session_id; the pool is idle.
ChatInit ==
    /\ req_pc = [r \in Requests |-> "received"]
    /\ session_id \in [Requests -> SessionIds]
    /\ conn = [r \in Requests |-> 0]
    /\ connection_pool = [c \in Connections |-> 0]
    /\ did = [r \in Requests |-> {}]
    /\ raised_in = [r \in Requests |-> "none"]
    /\ response = [r \in Requests |-> NoResponse]
    /\ stream_pos = [r \in Requests |-> 0]

\* Lines 73-79: parse the request; reject it without a session_id.
ParseRequest(r) ==
    /\ req_pc[r] = "received"
    /\ IF SessionMissing(session_id[r])
       THEN /\ response' = [response EXCEPT ![r] = JsonResponse({"error"}, 400)]
            /\ req_pc' = [req_pc EXCEPT ![r] = "returned"]
       ELSE /\ req_pc' = [req_pc EXCEPT ![r] = "create_model"]
            /\ UNCHANGED response
    /\ UNCHANGED <<session_id, conn, connection_pool, did, raised_in, stream_pos>>
    /\ UNCHANGED nonChatVars

\* Line 82: ChatOpenAI(model="gpt-4.1", temperature=0.1); it is outside any
\* try, so a failure leaves the view.
CreateModel(r) ==
    /\ req_pc[r] = "create_model"
    /\ \/ /\ did' = [did EXCEPT ![r] = @ \cup {"model"}]
          /\ req_pc' = [req_pc EXCEPT ![r] = "acquire"]
          /\ UNCHANGED <<raised_in, response>>
       \/ /\ raised_in' = [raised_in EXCEPT ![r] = "ChatOpenAI"]
          /\ response' = [response EXCEPT ![r] = Propagated]
          /\ req_pc' = [req_pc EXCEPT ![r] = "returned"]
          /\ UNCHANGED did
    /\ UNCHANGED <<session_id, conn, connection_pool, stream_pos>>
    /\ UNCHANGED nonChatVars

\* Lines 86-87: enter `with connection_pool.connection() as conn` and bind
\* the checkpointer to conn. The pool hands out a connection no request
\* holds (it waits while there is none).
AcquireConnection(r) ==
    /\ req_pc[r] = "acquire"
    /\ \E c \in Connections :
        /\ connection_pool[c] = 0
        /\ connection_pool' = [connection_pool EXCEPT ![c] = r]
        /\ conn' = [conn EXCEPT ![r] = c]
    /\ did' = [did EXCEPT ![r] = @ \cup {"connection"}]
    /\ req_pc' = [req_pc EXCEPT ![r] = "build"]
    /\ UNCHANGED <<session_id, raised_in, response, stream_pos>>
    /\ UNCHANGED nonChatVars

\* Lines 89-98: create_message_agent, create_supervisor_agent, agent_input.
\* The calls stand inside the with block and outside the try of line 100: if
\* one raises, the with block gives the connection back and the exception
\* leaves the view.
BuildGraph(r) ==
    /\ req_pc[r] = "build"
    /\ \/ /\ did' = [did EXCEPT ![r] = @ \cup {"graph"}]
          /\ req_pc' = [req_pc EXCEPT ![r] = "respond"]
          /\ UNCHANGED <<connection_pool, raised_in, response>>
       \/ /\ \E f \in {"create_message_agent", "create_supervisor_agent"} :
                raised_in' = [raised_in EXCEPT ![r] = f]
          /\ connection_pool' = Release(connection_pool, r)
          /\ response' = [response EXCEPT ![r] = Propagated]
          /\ req_pc' = [req_pc EXCEPT ![r] = "returned"]
          /\ UNCHANGED did
    /\ UNCHANGED <<session_id, conn, stream_pos>>
    /\ UNCHANGED nonChatVars

\* Lines 100-111: build the StreamingHttpResponse around the generator and
\* return it from inside the with block. Calling stream_generator only
\* creates the generator (none of its body runs), so nothing here raises and
\* the handler of lines 112-118 has nothing to catch; the return leaves the
\* with block, which gives the connection back to the pool.
ReturnResponse(r) ==
    /\ req_pc[r] = "respond"
    /\ response' = [response EXCEPT ![r] = StreamingHttpResponse]
    /\ connection_pool' = Release(connection_pool, r)
    /\ req_pc' = [req_pc EXCEPT ![r] = "streaming"]
    /\ UNCHANGED <<session_id, conn, did, raised_in, stream_pos>>
    /\ UNCHANGED nonChatVars

\* Django iterates the response: the generator runs the graph one node at a
\* time (stream_helper.py lines 36-62), the checkpointer reading and writing
\* through conn at every step.
StreamStep(r) ==
    /\ req_pc[r] = "streaming"
    /\ stream_pos[r] < Len(GraphNodes)
    /\ stream_pos' = [stream_pos EXCEPT ![r] = @ + 1]
    /\ did' = [did EXCEPT ![r] = @ \cup {"stream"}]
    /\ UNCHANGED <<req_pc, session_id, conn, connection_pool, raised_in, response>>
    /\ UNCHANGED nonChatVars

\* The stream ends: after the last node (the usage frame), or at any point
\* when the graph or the checkpointer raises (the error frame).
StreamFinish(r) ==
    /\ req_pc[r] = "streaming"
    /\ did' = [did EXCEPT ![r] = @ \cup {"stream"}]
    /\ req_pc' = [req_pc EXCEPT ![r] = "finished"]
    /\ UNCHANGED <<session_id, conn, connection_pool, raised_in, response, stream_pos>>
    /\ UNCHANGED nonChatVars

ChatNext ==
    \E r \in Requests :
        \/ ParseRequest(r)
        \/ CreateModel(r)
        \/ AcquireConnection(r)
        \/ BuildGraph(r)
        \/ ReturnResponse(r)
        \/ StreamStep(r)
        \/ StreamFinish(r)

(***************************************************************************)
(* Design A supervisor graph: intent_classifier -> rag_executor -> router  *)
(* -> message_agent, run once per turn of one session.                     *)
(***************************************************************************)
\* Turns of the session explored.
MaxTurns == 2

\* Longest retrieval result explored.
MaxDocs == 6

UserMessages == {"q"}

\* The six categories RouteQuery.intent describes (lines 38-41).
IntentCategories ==
    {"technical_capability", "domain_expertise", "business_trust",
     "engagement_hiring", "process_communication", "general_chat"}

\* RouteQuery.intent is a plain str: the model may answer with a category,
\* with the empty string or with any other text.
IntentOutputs == IntentCategories \cup {"", "billing"}

\* RouteQuery.confidence: Optional[float], default None.
ConfidenceOutputs == {"None", "0.0", "0.9"}

RouteQuery == [intent : IntentOutputs, confidence : ConfidenceOutputs]

\* state.get(key, default)
Get(st, key, default) == IF key \in DOMAIN st THEN st[key] ELSE default

\* The graph's merge of one returned key whose channel has no reducer.
Put(st, key, value) ==
    [k \in DOMAIN st \cup {key} |-> IF k = key THEN value ELSE st[k]]

\* messages: Annotated[list, operator.add] (line 23): a returned list is
\* appended to the kept one.
PutMessages_Replace(st, new) == Put(st, "messages", new)

PutMessages(st, new) == Put(st, "messages", Get(st, "messages", << >>) \o new)

HumanMessage(content) == [role |-> "human", content |-> content]

AIMessage(content) == [role |-> "ai", content |-> content]

TaxonomyCategories ==
    <<"Technical_Capability", "Domain_Expertise", "Business_Impact_Trust",
      "Engagement_Hiring", "Process_Communication">>

\* The i-th document of the retriever's ranking. Every fourth one carries no
\* category in its metadata.
RankedDocument(i) ==
    [page_content |-> "chunk" \o ToString(i),
     metadata |->
        IF i % 4 = 0
        THEN [sub_type |-> "label"]
        ELSE [category |-> TaxonomyCategories[((i - 1) % 5) + 1], sub_type |-> "label"]]

\* What advanced_retriever.invoke may return: the first n documents of the
\* ranking, for any n.
Retrievals == {[i \in 1..n |-> RankedDocument(i)] : n \in 0..MaxDocs}

\* Line 104: llm_response.confidence or 0.0
ConfidenceOrZero(c) == IF c \in {"None", "0.0"} THEN "0.0" ELSE c

\* Line 198: rag_data[:5]
TopDocsCount == 5

TopDocs_All(rag_data) == rag_data

TopDocs(rag_data) == SubSeq(rag_data, 1, Min(Len(rag_data), TopDocsCount))

\* Lines 199-201: f"[{category}] {content}", as its pieces.
RenderDocument(doc) ==
    <<"[", Get(doc.metadata, "category", "General"), "] ", doc.page_content>>

\* sep.join(parts), the text as the sequence of its pieces.
RECURSIVE Join(_, _)
Join(parts, sep) ==
    IF parts = << >> THEN << >>
    ELSE IF Len(parts) = 1 THEN parts[1]
    ELSE parts[1] \o <<sep>> \o Join(Tail(parts), sep)

\* Line 193: has_rag_data = len(rag_data) > 0
HasRagData_Always(rag_data) == TRUE

HasRagData(rag_data) == Len(rag_data) > 0

\* Lines 192-208: the context text.
BuildRagContext(rag_data) ==
    IF HasRagData(rag_data)
    THEN LET top == TopDocs(rag_data)
         IN  Join([i \in 1..Len(top) |-> RenderDocument(top[i])], "\n\n")
    ELSE << >>

\* Lines 213-216: AgentContext(rag_context=..., has_rag_data=...)
AgentContext(rag_data) ==
    [rag_context |-> BuildRagContext(rag_data), has_rag_data |-> HasRagData(rag_data)]

\* message_agent.py lines 26-71: the system instruction built before a model
\* call, by its heading and the context text it embeds.
inject_rag_context(context) ==
    IF context.has_rag_data
    THEN [template |-> "RAG CONTEXT - USE THIS INFORMATION",
          rag_context |-> context.rag_context]
    ELSE [template |-> "NO KNOWLEDGE BASE AVAILABLE", rag_context |-> << >>]

\* Lines 239-245: the except clause of message_generator_node.
ErrorReply == AIMessage("Error processing request: exc")

\* The session has no checkpoint yet and no turn is running.
GraphInit ==
    /\ graph_pc = "idle"
    /\ state = << >>
    /\ turn = 0
    /\ retrieved = << >>
    /\ failed = {}
    /\ agent_context = << >>
    /\ injected = << >>
    /\ ran = << >>
    /\ rag_calls = << >>

\* views.py lines 95-98 and the graph's START: the input
\* {messages: [HumanMessage], user_message} is merged into the thread's
\* checkpoint, whose other keys stay as the last turn left them.
StartTurn ==
    /\ graph_pc \in {"idle", "end", "raised"}
    /\ turn < MaxTurns
    /\ \E user_message \in UserMessages :
        state' = Put(PutMessages(state, <<HumanMessage(user_message)>>),
                     "user_message", user_message)
    /\ turn' = turn + 1
    /\ graph_pc' = "intent_classifier"
    /\ retrieved' = << >>
    /\ failed' = {}
    /\ agent_context' = << >>
    /\ injected' = << >>
    /\ ran' = << >>
    /\ rag_calls' = << >>
    /\ UNCHANGED nonGraphVars

\* Lines 76-105: intent_classifier_node. The model call stands in no try: if
\* it raises, the exception leaves the node and the graph run.
IntentClassifier ==
    /\ graph_pc = "intent_classifier"
    /\ \/ \E llm_response \in RouteQuery :
            /\ state' = Put(Put(state, "intent", llm_response.intent),
                            "confidence", ConfidenceOrZero(llm_response.confidence))
            /\ graph_pc' = "rag_executor"
            /\ UNCHANGED failed
       \/ /\ failed' = failed \cup {"intent_classifier"}
          /\ graph_pc' = "raised"
          /\ UNCHANGED state
    /\ ran' = Append(ran, "intent_classifier")
    /\ UNCHANGED <<turn, retrieved, agent_context, injected, rag_calls>>
    /\ UNCHANGED nonGraphVars

\* Lines 120-139: the calls of the try of rag_executor_node, in order; each
\* may raise.
RetrievalSteps ==
    <<"get_vectorstore", "as_retriever", "ChatOpenAI", "MultiQueryRetriever.from_llm",
      "invoke">>

\* Lines 145-147: the except clause of rag_executor_node.
RetrievalFailed_Keep(st) == st

RetrievalFailed(st) == Put(st, "rag_data", << >>)

\* Lines 107-147: rag_executor_node.
RagExecutor ==
    /\ graph_pc = "rag_executor"
    /\ IF Get(state, "intent", "") = ""
       THEN /\ state' = Put(state, "rag_data", << >>)
            /\ rag_calls' = << >>
            /\ UNCHANGED <<retrieved, failed>>
       ELSE \/ \E unique_docs \in Retrievals :
                /\ state' = Put(state, "rag_data", unique_docs)
                /\ retrieved' = unique_docs
                /\ rag_calls' = RetrievalSteps
                /\ UNCHANGED failed
            \/ \E k \in 1..Len(RetrievalSteps) :
                /\ state' = RetrievalFailed(state)
                /\ rag_calls' = SubSeq(RetrievalSteps, 1, k)
                /\ failed' = failed \cup {"rag_executor"}
                /\ UNCHANGED retrieved
    /\ graph_pc' = "router"
    /\ ran' = Append(ran, "rag_executor")
    /\ UNCHANGED <<turn, agent_context, injected>>
    /\ UNCHANGED nonGraphVars

\* Lines 247-252 and 269-276: the node the conditional edge leads to.
should_route_End(next_agent) == "end"

should_route(next_agent) == IF next_agent # "end" THEN next_agent ELSE "end"

\* Lines 149-171 and 247-252: route_task, then should_route on its result.
Router ==
    /\ graph_pc = "router"
    /\ LET messages == Get(state, "messages", << >>)
           next_agent == IF messages = << >> THEN "end" ELSE "message_agent"
           task_description ==
               IF messages = << >> THEN "No messages provided"
               ELSE Last(messages).content
       IN  /\ state' = Put(Put(state, "next_agent", next_agent),
                           "task_description", task_description)
           /\ graph_pc' = should_route(next_agent)
    /\ ran' = Append(ran, "router")
    /\ UNCHANGED <<turn, retrieved, failed, agent_context, injected, rag_calls>>
    /\ UNCHANGED nonGraphVars

\* Lines 173-245: message_generator_node. The agent is invoked with the
\* context; inject_rag_context runs before its model call. Whatever raises
\* inside the try becomes an ai message.
MessageAgent ==
    /\ graph_pc = "message_agent"
    /\ LET context == AgentContext(Get(state, "rag_data", << >>))
       IN  /\ agent_context' = Append(agent_context, context)
           /\ \/ \* the agent replies
                 /\ injected' = Append(injected, inject_rag_context(context))
                 /\ state' = PutMessages(state, <<AIMessage("reply")>>)
                 /\ UNCHANGED failed
              \/ \* the model call raises
                 /\ injected' = Append(injected, inject_rag_context(context))
                 /\ state' = PutMessages(state, <<ErrorReply>>)
                 /\ failed' = failed \cup {"message_agent"}
              \/ \* the agent raises before it calls the model
                 /\ state' = PutMessages(state, <<ErrorReply>>)
                 /\ failed' = failed \cup {"message_agent"}
                 /\ UNCHANGED injected
    /\ graph_pc' = "end"
    /\ ran' = Append(ran, "message_agent")
    /\ UNCHANGED <<turn, retrieved, rag_calls>>
    /\ UNCHANGED nonGraphVars

GraphNext == StartTurn \/ IntentClassifier \/ RagExecutor \/ Router \/ MessageAgent

(***************************************************************************)
(* Portfolio ingestion: validation of the parsed taxonomy list.            *)
(*                                                                         *)
(* A JSON string is the sequence of its characters; a JSON value is a      *)
(* record with its type `t` and, for a string, its characters `s`.         *)
(***************************************************************************)
\* Entries added to a base list, in the inputs of the validation.
MaxExtra == 1

Str(chars) == [t |-> "str", s |-> chars]

Null == [t |-> "null", s |-> << >>]

IsSpace(ch) == ch = " "

\* str.strip()
RECURSIVE LStrip(_)
LStrip(chars) ==
    IF chars # << >> /\ IsSpace(chars[1]) THEN LStrip(Tail(chars)) ELSE chars

RECURSIVE RStrip(_)
RStrip(chars) ==
    IF chars # << >> /\ IsSpace(chars[Len(chars)])
    THEN RStrip(SubSeq(chars, 1, Len(chars) - 1))
    ELSE chars

Strip(chars) == LStrip(RStrip(chars))

\* Lines 104-110
required_categories ==
    {"Technical_Capability", "Domain_Expertise", "Business_Impact_Trust",
     "Engagement_Hiring", "Process_Communication"}

\* Line 131: the keys of metadata, in the order they are looked for.
MetadataKeys == <<"category", "sub_type", "keywords", "project_ref">>

\* A keywords value: a list of values, a string, or null.
KeywordList(items) == [t |-> "list", items |-> items, s |-> << >>]

KeywordString(chars) == [t |-> "str", items |-> << >>, s |-> chars]

KeywordNull == [t |-> "null", items |-> << >>, s |-> << >>]

\* `for k in keywords`: a list gives its elements, a string its characters.
Iterable(kw) == kw.t \in {"list", "str"}

Elements(kw) ==
    IF kw.t = "list" THEN kw.items ELSE [i \in 1..Len(kw.s) |-> Str(<<kw.s[i]>>)]

Metadata(keys, category, sub_type, keywords, project_ref) ==
    [t |-> "dict", keys |-> keys, category |-> category, sub_type |-> sub_type,
     keywords |-> keywords, project_ref |-> project_ref]

AllMetadataKeys == {MetadataKeys[i] : i \in 1..Len(MetadataKeys)}

GoodMetadata(category) ==
    Metadata(AllMetadataKeys, category, Str(<<" ", "s">>),
             KeywordList(<<Str(<<"k", " ">>), Str(<<" ">>)>>), Str(<<"p">>))

NotADict == [t |-> "null", keys |-> {}, category |-> "", sub_type |-> Null,
             keywords |-> KeywordNull, project_ref |-> Null]

Entry(keys, content, metadata) ==
    [t |-> "dict", keys |-> keys, content |-> content, metadata |-> metadata]

\* A well-formed entry of the given category; its strings carry blanks that
\* the validation trims.
GoodEntry(category) ==
    Entry({"content", "metadata"}, Str(<<" ", "c", " ">>), GoodMetadata(category))

\* The entries an output of the model may hold besides the well-formed
\* ones: each departs from a well-formed entry in one place.
OddEntries ==
    LET cat == "Technical_Capability"
        g == GoodEntry(cat)
        gm == GoodMetadata(cat)
    IN  { [g EXCEPT !.t = "str"],
          [g EXCEPT !.keys = {"metadata"}],
          [g EXCEPT !.keys = {"content"}],
          [g EXCEPT !.content = Null],
          [g EXCEPT !.content = Str(<< >>)],
          [g EXCEPT !.content = Str(<<" ", " ">>)],
          [g EXCEPT !.metadata = NotADict],
          [g EXCEPT !.metadata = [gm EXCEPT !.category = "Other"]],
          [g EXCEPT !.metadata = [gm EXCEPT !.category = "technical_capability"]],
          [g EXCEPT !.metadata = [gm EXCEPT !.sub_type = Null]],
          [g EXCEPT !.metadata = [gm EXCEPT !.keywords = KeywordNull]],
          [g EXCEPT !.metadata = [gm EXCEPT !.keywords = KeywordString(<<"k", " ">>)]],
          [g EXCEPT !.metadata = [gm EXCEPT !.keywords = KeywordList(<<Str(<<"k">>), Null>>)]],
          [g EXCEPT !.metadata = [gm EXCEPT !.keywords = KeywordList(<< >>)]],
          [g EXCEPT !.metadata = [gm EXCEPT !.project_ref = Null]] }
    \cup { [g EXCEPT !.metadata = [gm EXCEPT !.keys = AllMetadataKeys \ {k}]] :
             k \in AllMetadataKeys }

Entries == {GoodEntry(c) : c \in required_categories} \cup OddEntries

\* Lines 115-137: the error _validate_item raises on an entry before it
\* builds its result, "" if it raises none.
CheckItem(item) ==
    IF item.t # "dict" THEN "Each entry must be a dict"
    ELSE IF ~({"content", "metadata"} \subseteq item.keys)
        THEN "Missing 'content' or 'metadata'"
    ELSE IF item.content.t # "str" \/ Strip(item.content.s) = << >>
        THEN "'content' must be non-empty string"
    ELSE IF item.metadata.t # "dict" THEN "'metadata' must be dict"
    ELSE IF \E i \in 1..Len(MetadataKeys) : MetadataKeys[i] \notin item.metadata.keys
        THEN LET i == CHOOSE i \in 1..Len(MetadataKeys) :
                        /\ MetadataKeys[i] \notin item.metadata.keys
                        /\ \A j \in 1..(i - 1) : MetadataKeys[j] \in item.metadata.keys
             IN  "Missing metadata." \o MetadataKeys[i]
    ELSE IF item.metadata.category \notin required_categories THEN "Invalid category"
    ELSE ""

\* Lines 139-147: the error raised while the result of _validate_item is
\* built (a .strip() on a value that is no string, an iteration over a value
\* that is no iterable), "" if there is none.
BuildItemError(item) ==
    LET m == item.metadata
    IN  IF m.sub_type.t # "str" THEN "AttributeError"
        ELSE IF ~Iterable(m.keywords) THEN "TypeError"
        ELSE IF \E i \in 1..Len(Elements(m.keywords)) : Elements(m.keywords)[i].t # "str"
            THEN "AttributeError"
        ELSE IF m.project_ref.t # "str" THEN "AttributeError"
        ELSE ""

\* Line 144: [k.strip() for k in keywords if k.strip()]
RECURSIVE StripKeywords(_)
StripKeywords(elems) ==
    IF elems = << >> THEN << >>
    ELSE LET k == Strip(elems[1].s)
         IN  (IF k # << >> THEN <<k>> ELSE << >>) \o StripKeywords(Tail(elems))

\* Lines 139-147: the validated chunk.
ValidatedItem(item) ==
    [content |-> Strip(item.content.s),
     metadata |->
        [category |-> item.metadata.category,
         sub_type |-> Strip(item.metadata.sub_type.s),
         keywords |-> StripKeywords(Elements(item.metadata.keywords)),
         project_ref |-> Strip(item.metadata.project_ref.s)]]

\* The error of _validate_item(item), "" if it returns.
ItemError(item) ==
    IF CheckItem(item) # "" THEN CheckItem(item) ELSE BuildItemError(item)

Failure(error, missing) ==
    [ok |-> FALSE, error |-> error, missing |-> missing, chunks |-> << >>]

\* Lines 155-157: the categories no entry had.
MissingCategories_None(seen_categories) == {}

MissingCategories(seen_categories) == required_categories \ seen_categories

\* Lines 103-159: the loop raises at the first entry _validate_item
\* rejects; after it, the categories seen must be all the required ones.
ValidateTaxonomy(list) ==
    IF \E i \in 1..Len(list) : ItemError(list[i]) # ""
    THEN LET i == CHOOSE i \in 1..Len(list) :
                    /\ ItemError(list[i]) # ""
                    /\ \A j \in 1..(i - 1) : ItemError(list[j]) = ""
         IN  Failure(ItemError(list[i]), {})
    ELSE LET validated_chunks == [i \in 1..Len(list) |-> ValidatedItem(list[i])]
             seen_categories ==
                 {validated_chunks[i].metadata.category : i \in 1..Len(list)}
             missing == MissingCategories(seen_categories)
         IN  IF missing # {}
             THEN Failure("Missing categories", missing)
             ELSE [ok |-> TRUE, error |-> "", missing |-> {}, chunks |-> validated_chunks]

NoResult == [ok |-> FALSE, error |-> "", missing |-> {}, chunks |-> << >>]

\* The five well-formed entries, one per category, in the prompt's order.
FullList == [i \in 1..Len(TaxonomyCategories) |-> GoodEntry(TaxonomyCategories[i])]

\* `list` without its element at position i.
Without(list, i) == SubSeq(list, 1, i - 1) \o SubSeq(list, i + 1, Len(list))

\* `list` with entry e put at position i.
WithAt(list, i, e) == SubSeq(list, 1, i - 1) \o <<e>> \o SubSeq(list, i, Len(list))

BaseLists == {<< >>, FullList} \cup {Without(FullList, i) : i \in 1..Len(FullList)}

\* The list with the entries es put in one after the other, es[k] at the
\* place ps[k] of the list it is put into.
RECURSIVE Inserted(_, _, _)
Inserted(list, es, ps) ==
    IF es = << >> THEN list
    ELSE Inserted(WithAt(list, Head(ps), Head(es)), Tail(es), Tail(ps))

\* The places n further entries can be put at in a list of length len.
Places(len, n) ==
    {ps \in [1..n -> 1..(len + n)] : \A k \in 1..n : ps[k] <= len + k}

\* The ingestion job has not run.
IngestRest ==
    /\ ingest_pc = "idle"
    /\ taxonomy_list = << >>
    /\ build_result = NoResult
    /\ documents = << >>
    /\ collection = << >>
    /\ collection_before = << >>
    /\ ingest_failed = "none"
    /\ runs = 0
    /\ observed = << >>

\* The validation is run on the complete list, the lists that lack one
\* category and the empty list, each with up to MaxExtra further entries of
\* any kind at any place.
ValidateInit ==
    /\ ingest_pc = "validate"
    /\ \E base \in BaseLists, n \in 0..MaxExtra :
         \E es \in [1..n -> Entries], ps \in Places(Len(base), n) :
            taxonomy_list = Inserted(base, es, ps)
    /\ build_result = NoResult
    /\ documents = << >>
    /\ collection = << >>
    /\ collection_before = << >>
    /\ ingest_failed = "none"
    /\ runs = 0
    /\ observed = << >>

\* Lines 103-159 on the parsed list.
Validate ==
    /\ ingest_pc = "validate"
    /\ build_result' = ValidateTaxonomy(taxonomy_list)
    /\ ingest_pc' = "validated"
    /\ UNCHANGED <<taxonomy_list, documents, collection, collection_before, ingest_failed, runs>>
    /\ UNCHANGED observed
    /\ UNCHANGED nonIngestVars

ValidateNext == Validate

(***************************************************************************)
(* Portfolio ingestion: load_and_process_data, one run per process.        *)
(***************************************************************************)
\* Ingestion runs explored.
MaxRuns == 2

\* What the model's output may parse to in a run: the complete list, the
\* list without Business_Impact_Trust, the complete list with a sixth entry,
\* with an entry of an unknown category, with an entry without keywords and
\* with an entry whose sub_type is null.
WithMetadata(list, i, field, value) ==
    [list EXCEPT ![i] = [@ EXCEPT !.metadata = [@ EXCEPT ![field] = value]]]

ModelOutputs ==
    { FullList,
      Without(FullList, 3),
      Append(FullList, GoodEntry("Domain_Expertise")),
      WithMetadata(FullList, 1, "category", "Other"),
      WithMetadata(FullList, 1, "keywords", KeywordList(<< >>)),
      WithMetadata(FullList, 1, "sub_type", Null) }

\* Lines 162-179: convert_to_documents, `now` being datetime.now().
ConvertChunk(chunk, now) ==
    [page_content |-> chunk.content,
     metadata |->
        [category |-> chunk.metadata.category,
         sub_type |-> chunk.metadata.sub_type,
         keywords |-> Join(chunk.metadata.keywords, ", "),
         project_ref |-> chunk.metadata.project_ref,
         timestamp |-> now]]

convert_to_documents(taxonomy_chunks, now) ==
    [i \in 1..Len(taxonomy_chunks) |-> ConvertChunk(taxonomy_chunks[i], now)]

\* A stage failed: it has logged the failure and load_and_process_data
\* returns (lines 228-233, 242-245, 257-260, 265-267).
Abort(stage) ==
    /\ ingest_failed' = stage
    /\ ingest_pc' = "aborted"

\* Line 273: the module runs load_and_process_data() once when it is loaded.
StartRun ==
    /\ ingest_pc \in {"idle", "complete", "aborted"}
    /\ runs < MaxRuns
    /\ runs' = runs + 1
    /\ collection_before' = collection
    /\ ingest_failed' = "none"
    /\ taxonomy_list' = << >>
    /\ build_result' = NoResult
    /\ documents' = << >>
    /\ ingest_pc' = "load"
    /\ UNCHANGED collection
    /\ UNCHANGED observed
    /\ UNCHANGED nonIngestVars

\* Lines 223-233: load the portfolio JSON.
LoadJson ==
    /\ ingest_pc = "load"
    /\ \/ /\ ingest_pc' = "taxonomy"
          /\ UNCHANGED ingest_failed
       \/ Abort("load")
    /\ UNCHANGED <<taxonomy_list, build_result, documents, collection, collection_before, runs>>
    /\ UNCHANGED observed
    /\ UNCHANGED nonIngestVars

\* Lines 235-245 with build_taxonomy_chunks_from_project_json (26-159): the
\* model call, the parse of its output and the validation.
GenerateTaxonomy ==
    /\ ingest_pc = "taxonomy"
    /\ \/ \* llm.invoke raises, or the output does not parse
          /\ Abort("taxonomy")
          /\ UNCHANGED <<taxonomy_list, build_result>>
       \/ \E parsed \in ModelOutputs :
            /\ taxonomy_list' = parsed
            /\ build_result' = ValidateTaxonomy(parsed)
            /\ IF ValidateTaxonomy(parsed).ok
               THEN ingest_pc' = "convert" /\ UNCHANGED ingest_failed
               ELSE Abort("taxonomy")
    /\ UNCHANGED <<documents, collection, collection_before, runs>>
    /\ UNCHANGED observed
    /\ UNCHANGED nonIngestVars

\* Lines 247-260: convert the chunks; the run number stands for the time.
Convert ==
    /\ ingest_pc = "convert"
    /\ documents' = convert_to_documents(build_result.chunks, runs)
    /\ ingest_pc' = "upsert"
    /\ UNCHANGED <<taxonomy_list, build_result, collection, collection_before, ingest_failed, runs>>
    /\ UNCHANGED observed
    /\ UNCHANGED nonIngestVars

\* Lines 182-195 and 262-267: upsert_documents_to_vectorstore returns at
\* once without documents; otherwise it opens the collection.
UpsertOpen ==
    /\ ingest_pc = "upsert"
    /\ IF documents = << >>
       THEN ingest_pc' = "complete" /\ UNCHANGED ingest_failed
       ELSE \/ ingest_pc' = "delete" /\ UNCHANGED ingest_failed
            \/ Abort("upsert")
    /\ UNCHANGED <<taxonomy_list, build_result, documents, collection, collection_before, runs>>
    /\ UNCHANGED observed
    /\ UNCHANGED nonIngestVars

\* Line 197: what delete_collection() leaves of the collection.
delete_collection_Keep(stored) == stored

delete_collection(stored) == << >>

\* Line 197: vectorstore.delete_collection()
UpsertDelete ==
    /\ ingest_pc = "delete"
    /\ \/ /\ collection' = delete_collection(collection)
          /\ ingest_pc' = "recreate"
          /\ UNCHANGED ingest_failed
       \/ /\ Abort("upsert")
          /\ UNCHANGED collection
    /\ UNCHANGED <<taxonomy_list, build_result, documents, collection_before, runs>>
    /\ UNCHANGED observed
    /\ UNCHANGED nonIngestVars

\* Lines 199-203: the collection is opened anew.
UpsertRecreate ==
    /\ ingest_pc = "recreate"
    /\ \/ ingest_pc' = "add" /\ UNCHANGED ingest_failed
       \/ Abort("upsert")
    /\ UNCHANGED <<taxonomy_list, build_result, documents, collection, collection_before, runs>>
    /\ UNCHANGED observed
    /\ UNCHANGED nonIngestVars

\* Lines 206-216: vectorstore.add_documents(documents=documents); it embeds
\* the documents and then stores them, and may raise before it stores any.
UpsertAdd ==
    /\ ingest_pc = "add"
    /\ \/ /\ collection' = collection \o documents
          /\ ingest_pc' = "complete"
          /\ UNCHANGED ingest_failed
       \/ /\ Abort("upsert")
          /\ UNCHANGED collection
    /\ UNCHANGED <<taxonomy_list, build_result, documents, collection_before, runs>>
    /\ UNCHANGED observed
    /\ UNCHANGED nonIngestVars

\* Retrievals explored.
MaxReads == 1

\* What a retrieval finds: the collection as it is when it reads; there is
\* no lock and no version to read from.
ReadCollection_Snapshot(stored) == collection_before

ReadCollection(stored) == stored

\* supervisor.py lines 119-143: rag_executor_node opens the collection
\* (get_vectorstore) and queries it, whatever the ingestion job is doing.
Retrieve ==
    /\ Len(observed) < MaxReads
    /\ observed' = Append(observed, [run |-> runs, at |-> ingest_pc,
                                     docs |-> ReadCollection(collection)])
    /\ UNCHANGED <<ingest_pc, taxonomy_list, build_result, documents, collection,
                   collection_before, ingest_failed, runs>>
    /\ UNCHANGED nonIngestVars

IngestNext ==
    \/ Retrieve
    \/ StartRun
    \/ LoadJson
    \/ GenerateTaxonomy
    \/ Convert
    \/ UpsertOpen
    \/ UpsertDelete
    \/ UpsertRecreate
    \/ UpsertAdd

(***************************************************************************)
(* Email tools: send_simple_email, send_html_email, send_bulk_email and    *)
(* send_email_with_cc_bcc (email_agent.py).  Text is a sequence of         *)
(* characters.                                                             *)
(***************************************************************************)
\* Entries of the recipients argument of send_bulk_email.
MaxRecipients == 3

\* Entries of the cc and of the bcc argument of send_email_with_cc_bcc.
MaxCopies == 2

\* `ch in chars`
Contains(chars, ch) == \E i \in 1..Len(chars) : chars[i] = ch

\* str.split(sep) for a separator of one character.
RECURSIVE Split(_, _)
Split(chars, sep) ==
    IF ~Contains(chars, sep) THEN <<chars>>
    ELSE LET i == CHOOSE k \in 1..Len(chars) :
                     chars[k] = sep /\ \A j \in 1..(k - 1) : chars[j] # sep
         IN  <<SubSeq(chars, 1, i - 1)>> \o Split(SubSeq(chars, i + 1, Len(chars)), sep)

\* Parts joined by a comma, as the caller writes a list of addresses.
RECURSIVE CommaSeparated(_)
CommaSeparated(parts) ==
    IF parts = << >> THEN << >>
    ELSE IF Len(parts) = 1 THEN parts[1]
    ELSE parts[1] \o <<",">> \o CommaSeparated(Tail(parts))

Padded(chars) == <<" ">> \o chars \o <<" ">>

\* Addresses a caller may pass: two well-formed ones, one without `@` and
\* `.`, one without `.`, one without `@`, and the empty text.
AddressWords ==
    { <<"a", "@", "x", ".", "c">>,
      <<"b", "@", "y", ".", "c">>,
      <<"b", "a", "d">>,
      <<"c", "@", "x">>,
      <<"d", ".", "c">>,
      << >> }

\* The recipient argument of the tools that take one address.
Recipients ==
    { <<"a", "@", "x", ".", "c">>,
      Padded(<<"b", "@", "y", ".", "c">>),
      <<"b", "a", "d">>,
      <<"c", "@", "x">>,
      <<"d", ".", "c">>,
      << >> }

\* The entries of a recipients argument, bare or with blanks around them.
BulkEntries == AddressWords \cup {Padded(w) : w \in AddressWords}

\* The entries of a cc or bcc argument.
CopyEntries ==
    { <<"a", "@", "x", ".", "c">>,
      Padded(<<"b", "a", "d">>),
      << >>,
      <<" ">> }

ToolNames ==
    {"send_simple_email", "send_html_email", "send_bulk_email", "send_email_with_cc_bcc"}

ToolCall(name, recipient, cc, bcc) ==
    [name |-> name, recipient |-> recipient, cc |-> cc, bcc |-> bcc]

NoCall == ToolCall("none", << >>, << >>, << >>)

\* Lines 32, 71, 114, 160: an address is refused when it has no `@` or no `.`
ValidAddress_Any(e) == TRUE

ValidAddress(e) == Contains(e, "@") /\ Contains(e, ".")

\* Line 111: [email.strip() for email in recipients.split(",")]
ParseRecipients(recipients) ==
    LET parts == Split(recipients, ",")
    IN  [i \in 1..Len(parts) |-> Strip(parts[i])]

\* Line 114: the addresses of the list that are refused, in order.
InvalidEmails_First(list) ==
    LET bad == SelectSeq(list, LAMBDA e : ~ValidAddress(e))
    IN  IF bad = << >> THEN bad ELSE <<bad[1]>>

InvalidEmails(list) == SelectSeq(list, LAMBDA e : ~ValidAddress(e))

\* Lines 164-165: [e.strip() for e in cc.split(",") if e.strip()] if cc else []
ParseCopies(cc) ==
    IF cc = << >> THEN << >>
    ELSE SelectSeq(ParseRecipients(cc), LAMBDA e : e # << >>)

\* Line 177: [recipient] + cc_list + bcc_list
AllRecipients_NoBcc(recipient, cc_list, bcc_list) == <<recipient>> \o cc_list

AllRecipients(recipient, cc_list, bcc_list) == <<recipient>> \o cc_list \o bcc_list

\* No message has been built.
NoHeaders == [k \in {} |-> << >>]

\* Lines 36-39, 75-78, 128-131, 168-174: the headers of the message; Cc is
\* set only for a non-empty cc_list.
Headers(recipient, cc_list) ==
    LET base == [Subject |-> <<"s">>, From |-> <<"m", "e">>, To |-> recipient]
    IN  IF cc_list # << >> THEN Put(base, "Cc", Join(cc_list, ", ")) ELSE base

\* What a tool returns: a text, the addresses it names and the counts it
\* gives (the check mark that opens a confirmation is left out).
ToolResult(text, names, counts) == [text |-> text, names |-> names, counts |-> counts]

NoReturn == ToolResult("", << >>, << >>)

\* One thing asked of smtplib, and whether it was done or raised.
SmtpOp(op, ok, to_addrs, headers) ==
    [op |-> op, ok |-> ok, to_addrs |-> to_addrs, headers |-> headers]

\* What each step of an SMTP session can raise.
StepExceptions(step) ==
    CASE step = "connect" -> {"SMTPException", "Exception"}
      [] step = "starttls" -> {"SMTPException"}
      [] step = "login" -> {"SMTPAuthenticationError", "SMTPException"}
      [] step = "sendmail" -> {"SMTPException", "Exception"}
      [] step = "quit" -> {"SMTPException"}

\* Lines 49-54, 93-94, 141-142, 193-194: the except clauses of the tools.
HandleException_Propagate(name, exc) == NoReturn

HandleException(name, exc) ==
    CASE name = "send_simple_email" ->
            IF exc = "SMTPAuthenticationError"
            THEN ToolResult("Error: SMTP authentication failed. Check email credentials.",
                            << >>, << >>)
            ELSE IF exc = "SMTPException"
            THEN ToolResult("Error: SMTP error occurred: ", << >>, << >>)
            ELSE ToolResult("Error sending email: ", << >>, << >>)
      [] name = "send_html_email" ->
            ToolResult("Error sending HTML email: ", << >>, << >>)
      [] name = "send_bulk_email" ->
            ToolResult("Error in bulk email: ", << >>, << >>)
      [] name = "send_email_with_cc_bcc" ->
            ToolResult("Error sending email with CC/BCC: ", << >>, << >>)

\* Lines 33, 72, 116, 161: the answer to a refused address.
InvalidAddressResult(name, invalid) ==
    CASE name = "send_bulk_email" ->
            ToolResult("Error: Invalid email addresses: ", invalid, << >>)
      [] name = "send_email_with_cc_bcc" ->
            ToolResult("Error: Invalid primary recipient: ", invalid, << >>)
      [] OTHER ->
            ToolResult("Error: Invalid email address format: ", invalid, << >>)

\* Lines 47, 91, 139, 185-191: the confirmation.
Confirmation(call, sent, unsent) ==
    CASE call.name = "send_simple_email" ->
            ToolResult("Email successfully sent to ", <<call.recipient>>, << >>)
      [] call.name = "send_html_email" ->
            ToolResult("HTML email successfully sent to ", <<call.recipient>>, << >>)
      [] call.name = "send_bulk_email" ->
            ToolResult("Bulk email complete: sent, failed", << >>, <<sent, unsent>>)
      [] call.name = "send_email_with_cc_bcc" ->
            ToolResult("Email sent (To, CC, BCC count)",
                       <<call.recipient>> \o ParseCopies(call.cc),
                       IF ParseCopies(call.bcc) # << >>
                       THEN <<Len(ParseCopies(call.bcc))>> ELSE << >>)

\* No tool has been called.
EmailRest ==
    /\ email_pc = "idle"
    /\ tool_call = NoCall
    /\ email_list = << >>
    /\ msg = NoHeaders
    /\ server = << >>
    /\ sent_count = 0
    /\ failed_count = 0
    /\ tool_result = NoReturn

\* The tool returns: nothing more is asked of smtplib.
Return(result) ==
    /\ tool_result' = result
    /\ email_pc' = "returned"

\* An SMTP step raised exc outside the loop of send_bulk_email: the except
\* clause of the tool gives the result.
Raise(step, exc) ==
    /\ server' = Append(server, SmtpOp(step, FALSE, << >>, NoHeaders))
    /\ Return(HandleException(tool_call.name, exc))

\* Lines 30-39, 70-83, 109-120, 159-177: the tool is called; it checks the
\* addresses and, if it accepts them, builds what it will send.
CallTool ==
    /\ email_pc = "idle"
    /\ \E name \in ToolNames :
        \/ /\ name \in {"send_simple_email", "send_html_email"}
           /\ \E r \in Recipients :
                /\ tool_call' = ToolCall(name, r, << >>, << >>)
                /\ IF ValidAddress(r)
                   THEN /\ msg' = Headers(r, << >>)
                        /\ email_list' = <<r>>
                        /\ email_pc' = "connect"
                        /\ UNCHANGED tool_result
                   ELSE /\ Return(InvalidAddressResult(name, <<r>>))
                        /\ UNCHANGED <<msg, email_list>>
        \/ /\ name = "send_bulk_email"
           /\ \E k \in 0..MaxRecipients : \E es \in [1..k -> BulkEntries] :
                LET recipients == CommaSeparated(es)
                    list == ParseRecipients(recipients)
                IN  /\ tool_call' = ToolCall(name, recipients, << >>, << >>)
                    /\ email_list' = list
                    /\ IF InvalidEmails(list) # << >>
                       THEN Return(InvalidAddressResult(name, InvalidEmails(list)))
                       ELSE email_pc' = "connect" /\ UNCHANGED tool_result
                    /\ UNCHANGED msg
        \/ /\ name = "send_email_with_cc_bcc"
           /\ \E r \in Recipients :
              \E kc \in 0..MaxCopies, kb \in 0..MaxCopies :
              \E cs \in [1..kc -> CopyEntries], bs \in [1..kb -> CopyEntries] :
                LET cc == CommaSeparated(cs)
                    bcc == CommaSeparated(bs)
                IN  /\ tool_call' = ToolCall(name, r, cc, bcc)
                    /\ IF ValidAddress(r)
                       THEN /\ msg' = Headers(r, ParseCopies(cc))
                            /\ email_list' =
                                 AllRecipients(r, ParseCopies(cc), ParseCopies(bcc))
                            /\ email_pc' = "connect"
                            /\ UNCHANGED tool_result
                       ELSE /\ Return(InvalidAddressResult(name, <<r>>))
                            /\ UNCHANGED <<msg, email_list>>
    /\ UNCHANGED <<server, sent_count, failed_count>>
    /\ UNCHANGED nonEmailVars

\* Lines 42, 86, 122, 180: smtplib.SMTP(SMTP_SERVER, SMTP_PORT)
Connect ==
    /\ email_pc = "connect"
    /\ \/ /\ server' = Append(server, SmtpOp("connect", TRUE, << >>, NoHeaders))
          /\ email_pc' = "starttls"
          /\ UNCHANGED tool_result
       \/ \E exc \in StepExceptions("connect") : Raise("connect", exc)
    /\ UNCHANGED <<tool_call, email_list, msg, sent_count, failed_count>>
    /\ UNCHANGED nonEmailVars

\* Lines 43, 87, 123, 181: server.starttls()
StartTls ==
    /\ email_pc = "starttls"
    /\ \/ /\ server' = Append(server, SmtpOp("starttls", TRUE, << >>, NoHeaders))
          /\ email_pc' = "login"
          /\ UNCHANGED tool_result
       \/ \E exc \in StepExceptions("starttls") : Raise("starttls", exc)
    /\ UNCHANGED <<tool_call, email_list, msg, sent_count, failed_count>>
    /\ UNCHANGED nonEmailVars

\* Lines 44, 88, 124, 182: server.login(SENDER_EMAIL, SENDER_PASSWORD)
Login ==
    /\ email_pc = "login"
    /\ \/ /\ server' = Append(server, SmtpOp("login", TRUE, << >>, NoHeaders))
          /\ email_pc' = IF tool_call.name = "send_bulk_email" THEN "loop" ELSE "sendmail"
          /\ UNCHANGED tool_result
       \/ \E exc \in StepExceptions("login") : Raise("login", exc)
    /\ UNCHANGED <<tool_call, email_list, msg, sent_count, failed_count>>
    /\ UNCHANGED nonEmailVars

\* Lines 45, 89, 183: the one server.sendmail(...) of the tools that send
\* one message.
SendMail ==
    /\ email_pc = "sendmail"
    /\ \/ /\ server' = Append(server, SmtpOp("sendmail", TRUE, email_list, msg))
          /\ email_pc' = "quit"
          /\ UNCHANGED tool_result
       \/ \E exc \in StepExceptions("sendmail") :
            /\ server' = Append(server, SmtpOp("sendmail", FALSE, email_list, msg))
            /\ Return(HandleException(tool_call.name, exc))
    /\ UNCHANGED <<tool_call, email_list, msg, sent_count, failed_count>>
    /\ UNCHANGED nonEmailVars

\* Lines 126-137: one round of the loop of send_bulk_email; a failure is
\* counted and the loop goes on.
SendToNext ==
    /\ email_pc = "loop"
    /\ LET recipient == email_list[sent_count + failed_count + 1]
           message == Headers(recipient, << >>)
       IN  /\ msg' = message
           /\ \/ /\ server' = Append(server, SmtpOp("sendmail", TRUE, <<recipient>>, message))
                 /\ sent_count' = sent_count + 1
                 /\ UNCHANGED failed_count
              \/ \E exc \in StepExceptions("sendmail") :
                   /\ server' =
                        Append(server, SmtpOp("sendmail", FALSE, <<recipient>>, message))
                   /\ failed_count' = failed_count + 1
                   /\ UNCHANGED sent_count
    /\ email_pc' = IF sent_count + failed_count + 1 = Len(email_list) THEN "quit" ELSE "loop"
    /\ UNCHANGED <<tool_call, email_list, tool_result>>
    /\ UNCHANGED nonEmailVars

\* The end of the `with smtplib.SMTP(...)` block (QUIT, which may be
\* refused) and lines 47, 91, 139, 185-191: the confirmation.
Quit ==
    /\ email_pc = "quit"
    /\ \/ /\ server' = Append(server, SmtpOp("quit", TRUE, << >>, NoHeaders))
          /\ Return(Confirmation(tool_call, sent_count, failed_count))
       \/ \E exc \in StepExceptions("quit") : Raise("quit", exc)
    /\ UNCHANGED <<tool_call, email_list, msg, sent_count, failed_count>>
    /\ UNCHANGED nonEmailVars

EmailNext ==
    \/ CallTool
    \/ Connect
    \/ StartTls
    \/ Login
    \/ SendMail
    \/ SendToNext
    \/ Quit

(***************************************************************************)
(* Parsing of the model's output in                                        *)
(* build_taxonomy_chunks_from_project_json (ingest_portfolio.py lines      *)
(* 70-101).  The text is a sequence of tokens: the brackets, the braces,   *)
(* the comma, "content" (a member whose key is "content", in plain         *)
(* quotes), "member" (a member with another key, in plain quotes), "smart" *)
(* (a member written with typographic quotes) and "text" (words that are   *)
(* no JSON).  Blanks are left out.                                         *)
(***************************************************************************)
\* Objects in the model's output.
MaxObjects == 2

\* The places of a token in a text.
Places_Of(t, tok) == {i \in 1..Len(t) : t[i] = tok}

SetMin(S) == CHOOSE x \in S : \A y \in S : x <= y

SetMax(S) == CHOOSE x \in S : \A y \in S : x >= y

\* Line 74: re.search(r"(\[\s*\{.*\}\s*\])", raw, flags=re.DOTALL): from the
\* first `[{` that has a `}]` after it to the last `}]`; empty if none.
ArrayMatch(t) ==
    LET ends(i) == {j \in (i + 2)..(Len(t) - 1) : t[j] = "}" /\ t[j + 1] = "]"}
        starts == {i \in 1..(Len(t) - 1) :
                     t[i] = "[" /\ t[i + 1] = "{" /\ ends(i) # {}}
    IN  IF starts = {} THEN << >>
        ELSE SubSeq(t, SetMin(starts), SetMax(ends(SetMin(starts))) + 1)

\* Line 78: re.search(r"(\{\s*\"content\".*\}\s*)", raw, flags=re.DOTALL):
\* from the first `{"content"` that has a `}` after it to the last `}`.
ObjectMatch(t) ==
    LET ends(i) == {j \in (i + 2)..Len(t) : t[j] = "}"}
        starts == {i \in 1..(Len(t) - 1) :
                     t[i] = "{" /\ t[i + 1] = "content" /\ ends(i) # {}}
    IN  IF starts = {} THEN << >>
        ELSE SubSeq(t, SetMin(starts), SetMax(ends(SetMin(starts))))

\* Lines 73-80: json_text and the pattern that gave it ("none": json_text
\* stays None).
Candidate(t) ==
    IF ArrayMatch(t) # << >> THEN [kind |-> "array", json_text |-> ArrayMatch(t)]
    ELSE IF ObjectMatch(t) # << >>
    THEN [kind |-> "object", json_text |-> <<"[">> \o ObjectMatch(t) \o <<"]">>]
    ELSE [kind |-> "none", json_text |-> << >>]

IsMember(tok) == tok \in {"content", "member"}

\* Members separated by commas.
RECURSIVE MembersOk(_)
MembersOk(t) ==
    /\ Len(t) >= 1
    /\ IsMember(t[1])
    /\ \/ Len(t) = 1
       \/ Len(t) >= 3 /\ t[2] = "," /\ MembersOk(SubSeq(t, 3, Len(t)))

IsObject(t) ==
    /\ Len(t) >= 2
    /\ t[1] = "{"
    /\ t[Len(t)] = "}"
    /\ Len(t) = 2 \/ MembersOk(SubSeq(t, 2, Len(t) - 1))

\* Objects separated by commas.
RECURSIVE ObjectsOk(_)
ObjectsOk(t) ==
    /\ Places_Of(t, "}") # {}
    /\ LET k == SetMin(Places_Of(t, "}"))
       IN  /\ IsObject(SubSeq(t, 1, k))
           /\ \/ k = Len(t)
              \/ k + 2 <= Len(t) /\ t[k + 1] = "," /\ ObjectsOk(SubSeq(t, k + 2, Len(t)))

IsArray(t) ==
    /\ Len(t) >= 2
    /\ t[1] = "["
    /\ t[Len(t)] = "]"
    /\ Len(t) = 2 \/ ObjectsOk(SubSeq(t, 2, Len(t) - 1))

\* The objects of a text that is JSON, each as its members.
RECURSIVE ObjectsOf(_)
ObjectsOf(t) ==
    IF Places_Of(t, "{") = {} THEN << >>
    ELSE LET i == SetMin(Places_Of(t, "{"))
             k == SetMin({j \in Places_Of(t, "}") : j > i})
         IN  <<SelectSeq(SubSeq(t, i + 1, k - 1), IsMember)>>
             \o ObjectsOf(SubSeq(t, k + 1, Len(t)))

\* json.loads, and lines 85, 91, 99: a dict is wrapped in a list.
json_loads(t) ==
    IF IsObject(t) \/ IsArray(t)
    THEN [ok |-> TRUE, value |-> ObjectsOf(t)]
    ELSE [ok |-> FALSE, value |-> << >>]

\* Line 94: json_text.replace(""", "\"").replace(""", "\""). As the file has
\* it, the argument opens a triple-quoted string: the call replaces the
\* text `, """).replace(` by a plain quote. No token of a text holds it, so
\* typographic quotes stay as they are.
ReplaceQuotes(t) == t

\* Lines 95-96: re.sub(r",\s*}", "}", ...) and re.sub(r",\s*]", "]", ...)
RECURSIVE DropCommaBefore(_, _)
DropCommaBefore(t, close) ==
    IF Len(t) < 2 THEN t
    ELSE IF t[1] = "," /\ t[2] = close THEN DropCommaBefore(Tail(t), close)
    ELSE <<t[1]>> \o DropCommaBefore(Tail(t), close)

\* Lines 94-96: the cleanup.
Cleanup(t) == DropCommaBefore(DropCommaBefore(ReplaceQuotes(t), "}"), "]")

\* What the parsing gives: the candidate it chose, the texts it handed to
\* json.loads in order, and the list or the error.
ParseResult(candidate, tried, ok, list, error) ==
    [candidate |-> candidate, tried |-> tried, ok |-> ok, list |-> list, error |-> error]

NoParse == ParseResult("none", << >>, FALSE, << >>, "")

\* Lines 82-101: the parse of the candidate, or of the whole text without
\* one.
ParseModelOutput(t) ==
    LET c == Candidate(t)
    IN  IF c.kind = "none"
        THEN IF json_loads(t).ok
             THEN ParseResult("direct", <<t>>, TRUE, json_loads(t).value, "")
             ELSE ParseResult("direct", <<t>>, FALSE, << >>,
                              "Could not parse JSON from LLM output")
        ELSE IF json_loads(c.json_text).ok
             THEN ParseResult(c.kind, <<c.json_text>>, TRUE, json_loads(c.json_text).value, "")
             ELSE LET cleaned == Cleanup(c.json_text)
                  IN  IF json_loads(cleaned).ok
                      THEN ParseResult(c.kind, <<c.json_text, cleaned>>, TRUE,
                                       json_loads(cleaned).value, "")
                      ELSE ParseResult(c.kind, <<c.json_text, cleaned>>, FALSE, << >>,
                                       "Failed to parse JSON")

\* The objects a model may write: well-formed ones, ones with a trailing
\* comma and one in typographic quotes.
ObjectTexts ==
    { <<"{", "content", "}">>,
      <<"{", "member", "}">>,
      <<"{", "content", ",", "member", "}">>,
      <<"{", "content", ",", "}">>,
      <<"{", "member", ",", "}">>,
      <<"{", "smart", "}">> }

\* Texts joined by commas.
RECURSIVE CommaJoined(_)
CommaJoined(texts) ==
    IF texts = << >> THEN << >>
    ELSE IF Len(texts) = 1 THEN texts[1]
    ELSE texts[1] \o <<",">> \o CommaJoined(Tail(texts))

Words == {<< >>, <<"text">>}

\* No output is being parsed.
ParseRest ==
    /\ parse_pc = "idle"
    /\ raw = << >>
    /\ parse_result = NoParse

\* Line 70: raw = llm_response.content.strip(): up to MaxObjects objects
\* separated by commas, with or without a comma after the last, inside
\* brackets or bare, with or without words before and after.
ParseInit ==
    /\ parse_pc = "raw"
    /\ \E k \in 0..MaxObjects : \E os \in [1..k -> ObjectTexts] :
       \E last \in {<< >>, <<",">>}, bracketed \in BOOLEAN, before \in Words, after \in Words :
         LET body == CommaJoined(os) \o last
         IN  raw = before \o (IF bracketed THEN <<"[">> \o body \o <<"]">> ELSE body) \o after
    /\ parse_result = NoParse

\* Lines 72-101 on the output.
Parse ==
    /\ parse_pc = "raw"
    /\ parse_result' = ParseModelOutput(raw)
    /\ parse_pc' = "parsed"
    /\ UNCHANGED raw
    /\ UNCHANGED nonParseVars

ParseNext == Parse

(***************************************************************************)
(* Specifications: one per component, the others at rest.                  *)
(***************************************************************************)
InitStream == StreamInit /\ ChatRest /\ GraphInit /\ IngestRest /\ EmailRest /\ ParseRest

SpecStream == InitStream /\ [][StreamNext]_vars

InitChat == ChatInit /\ StreamRest /\ GraphInit /\ IngestRest /\ EmailRest /\ ParseRest

SpecChat == InitChat /\ [][ChatNext]_vars

InitGraph == GraphInit /\ StreamRest /\ ChatRest /\ IngestRest /\ EmailRest /\ ParseRest

SpecGraph == InitGraph /\ [][GraphNext]_vars

InitValidate == ValidateInit /\ StreamRest /\ ChatRest /\ GraphInit /\ EmailRest /\ ParseRest

SpecValidate == InitValidate /\ [][ValidateNext]_vars

InitIngest == IngestRest /\ StreamRest /\ ChatRest /\ GraphInit /\ EmailRest /\ ParseRest

SpecIngest == InitIngest /\ [][IngestNext]_vars

InitEmail == EmailRest /\ StreamRest /\ ChatRest /\ GraphInit /\ IngestRest /\ ParseRest

SpecEmail == InitEmail /\ [][EmailNext]_vars

InitParse ==
    ParseInit /\ StreamRest /\ ChatRest /\ GraphInit /\ IngestRest /\ EmailRest

SpecParse == InitParse /\ [][ParseNext]_vars

(***************************************************************************)
(* Properties of stream_generator.                                         *)
(***************************************************************************)
IsTerminal(f) == f.type \in {"usage", "error"}

TerminalPositions == {i \in 1..Len(frames) : IsTerminal(frames[i])}

\* C1: every run of stream_generator ends with exactly one terminal frame,
\* a usage frame if agent.stream() completed and an error frame if it
\* raised; never both, never neither, and no frame follows the terminal one.
C1_OneTerminalFrame ==
    /\ Cardinality(TerminalPositions) <= 1
    /\ \A i \in TerminalPositions : i = Len(frames)
    /\ gen_pc = "running" => TerminalPositions = {}
    /\ gen_pc = "done" =>
        /\ Cardinality(TerminalPositions) = 1
        /\ agent_stream \in {"completed", "raised"}
        /\ agent_stream = "completed" => Last(frames).type = "usage"
        /\ agent_stream = "raised" => Last(frames).type = "error"

\* The stream raised after it had yielded chunks, and the run is over.
C1_Witness ==
    /\ gen_pc = "done"
    /\ agent_stream = "raised"
    /\ Len(steps) >= 2

\* The chunks that carried usage metadata (neither None nor empty).
UsageBearing == {i \in 1..Len(steps) : steps[i].usage_metadata # << >>}

MaxOf(S) == CHOOSE m \in S : \A x \in S : x <= m

\* `key` as the usage metadata `usage` gives it, an absent key read as 0.
FieldOr0(usage, key) == IF HasKey(usage, key) THEN usage[key] ELSE 0

\* C6 as stated: the usage frame reports the input_tokens and output_tokens
\* of the last chunk that carried usage metadata (both 0 if none did), and
\* their sum as total_tokens.
C6_LastChunkWins ==
    (gen_pc = "done" /\ agent_stream = "completed") =>
        LET f == Last(frames)
            u == IF UsageBearing = {} THEN << >>
                 ELSE steps[MaxOf(UsageBearing)].usage_metadata
        IN  /\ f.input_tokens = FieldOr0(u, "input_tokens")
            /\ f.output_tokens = FieldOr0(u, "output_tokens")
            /\ f.total_tokens = f.input_tokens + f.output_tokens

\* The value of `key` on the last chunk whose usage metadata holds `key`,
\* 0 if no chunk's does.
LastReported(key) ==
    LET I == {i \in 1..Len(steps) : HasKey(steps[i].usage_metadata, key)}
    IN  IF I = {} THEN 0 ELSE steps[MaxOf(I)].usage_metadata[key]

\* C6 amended: each of input_tokens and output_tokens is, on its own, the
\* value of that field on the last chunk whose usage metadata held the
\* field (0 if none did); total_tokens is their sum; earlier values are
\* overwritten, never added.
C6_LastFieldWins ==
    /\ gen_pc = "running" =>
        /\ prompt_tokens = LastReported("input_tokens")
        /\ completion_tokens = LastReported("output_tokens")
    /\ (gen_pc = "done" /\ agent_stream = "completed") =>
        LET f == Last(frames)
        IN  /\ f.type = "usage"
            /\ f.input_tokens = LastReported("input_tokens")
            /\ f.output_tokens = LastReported("output_tokens")
            /\ f.total_tokens = LastReported("input_tokens") + LastReported("output_tokens")

\* A completed run whose last usage-bearing chunk lacks output_tokens, after
\* an earlier chunk that reported a non-zero output_tokens.
C6_Witness ==
    /\ gen_pc = "done"
    /\ agent_stream = "completed"
    /\ UsageBearing # {}
    /\ ~HasKey(steps[MaxOf(UsageBearing)].usage_metadata, "output_tokens")
    /\ Last(frames).output_tokens > 0
    /\ Last(frames).input_tokens > 0

(***************************************************************************)
(* Properties of chat_asistance.                                           *)
(***************************************************************************)
\* The response stream of r is being produced: its checkpointer is in use.
Streaming(r) == req_pc[r] = "streaming"

\* r is inside the with block: it has acquired its connection.
Holding(r) == conn[r] # 0 /\ connection_pool[conn[r]] = r

\* r's checkpointer may touch its connection.
Using(r) == req_pc[r] \in {"build", "respond", "streaming"}

\* C2: while a request's response stream is being produced, the connection
\* bound to its checkpointer is still acquired by that request, and no two
\* requests use the same connection at the same time.
C2_ConnectionHeldWhileStreaming ==
    /\ \A r \in Requests : Streaming(r) => Holding(r)
    /\ \A r1, r2 \in Requests :
        (r1 # r2 /\ Using(r1) /\ Using(r2)) => conn[r1] # conn[r2]

\* C4: if building the specialist agent or the supervisor graph raises, the
\* view returns a JSON body with `error` and `detail` and status 400; the
\* exception does not leave the view.
C4_BuildFailureReturns400 ==
    \A r \in Requests :
        raised_in[r] \in {"create_message_agent", "create_supervisor_agent"} =>
            response[r] = JsonResponse({"error", "detail"}, 400)

\* C5: a request whose session_id is absent or empty is answered with
\* status 400 and a JSON body holding `error`, and on that path it creates
\* no model handle, acquires no connection, builds no graph and starts no
\* stream.
C5_MissingSessionRejected ==
    \A r \in Requests :
        (session_id[r] \in {NoneValue, ""} /\ req_pc[r] # "received") =>
            /\ req_pc[r] = "returned"
            /\ response[r].kind = "json"
            /\ response[r].status = 400
            /\ "error" \in response[r].body
            /\ did[r] = {}
            /\ conn[r] = 0
            /\ \A c \in Connections : connection_pool[c] # r

\* A request with an empty session_id has been answered while another
\* request is streaming.
C5_Witness ==
    \E r, q \in Requests :
        /\ session_id[r] = ""
        /\ req_pc[r] = "returned"
        /\ req_pc[q] = "streaming"

(***************************************************************************)
(* Properties of the Design A graph.                                       *)
(***************************************************************************)
\* C7: a failure of an external call made by a node is caught inside that
\* node and never leaves the graph run; a failed model call ends the turn
\* with an ai error message appended to the history.
C7_FailuresCaughtInNode ==
    /\ graph_pc # "raised"
    /\ (failed \cap {"intent_classifier", "message_agent"} # {}) =>
        /\ graph_pc = "end"
        /\ Last(state["messages"]) = ErrorReply

\* C8: every system instruction injected in a turn is the "no knowledge
\* base available" template exactly when the turn retrieved no document
\* (retrieval empty, failed or skipped), and the grounded template embedding
\* the context text exactly when it retrieved at least one.
C8_InstructionMatchesRetrieval ==
    \A i \in 1..Len(injected) :
        /\ injected[i].template \in
               {"NO KNOWLEDGE BASE AVAILABLE", "RAG CONTEXT - USE THIS INFORMATION"}
        /\ injected[i].template = "NO KNOWLEDGE BASE AVAILABLE" <=> retrieved = << >>
        /\ injected[i].template = "RAG CONTEXT - USE THIS INFORMATION" <=> retrieved # << >>
        /\ retrieved # << >> =>
            /\ injected[i].rag_context # << >>
            /\ injected[i].rag_context = Last(agent_context).rag_context

\* In the second turn the retrieval raised and the agent's model was called.
C8_Witness ==
    /\ turn = 2
    /\ "rag_executor" \in failed
    /\ Len(injected) >= 1
    /\ retrieved = << >>

\* The bracketed label of a document: its category, "General" without one.
CategoryLabel(doc) ==
    IF "category" \in DOMAIN doc.metadata THEN doc.metadata["category"] ELSE "General"

\* C9: for n retrieved documents the grounding context is the first
\* min(n, 5) of them in retrieval order, each as `[category] content`,
\* joined by blank lines; the documents from position 6 on are not in it.
C9_ContextIsFirstFive ==
    \A c \in 1..Len(agent_context) :
        LET text == agent_context[c].rag_context
            n == Len(retrieved)
            k == IF n < 5 THEN n ELSE 5
        IN  /\ Len(text) = IF k = 0 THEN 0 ELSE 5 * k - 1
            /\ \A i \in 1..k :
                /\ text[5 * (i - 1) + 1] = "["
                /\ text[5 * (i - 1) + 2] = CategoryLabel(retrieved[i])
                /\ text[5 * (i - 1) + 3] = "] "
                /\ text[5 * (i - 1) + 4] = retrieved[i].page_content
                /\ i < k => text[5 * i] = "\n\n"
            /\ \A j \in 6..n : \A p \in 1..Len(text) : text[p] # retrieved[j].page_content

\* The agent was invoked in a turn that retrieved six documents or more.
C9_Witness ==
    /\ agent_context # << >>
    /\ Len(retrieved) >= 6
    /\ graph_pc = "end"

(***************************************************************************)
(* Properties of the ingestion validation.                                 *)
(***************************************************************************)
FiveCategories == {TaxonomyCategories[i] : i \in 1..Len(TaxonomyCategories)}

NonBlank(chars) == \E i \in 1..Len(chars) : chars[i] # " "

\* An entry as C10 wants it: a record with non-empty trimmed content and
\* metadata holding the four keys, its category one of the five.
WellFormed(e) ==
    /\ e.t = "dict"
    /\ {"content", "metadata"} \subseteq e.keys
    /\ e.content.t = "str"
    /\ NonBlank(e.content.s)
    /\ e.metadata.t = "dict"
    /\ {"category", "sub_type", "keywords", "project_ref"} \subseteq e.metadata.keys
    /\ e.metadata.category \in FiveCategories

\* The same, and sub_type and project_ref are strings and keywords is a list
\* of strings or a string.
WellTyped(e) ==
    /\ WellFormed(e)
    /\ e.metadata.sub_type.t = "str"
    /\ e.metadata.project_ref.t = "str"
    /\ \/ e.metadata.keywords.t = "str"
       \/ /\ e.metadata.keywords.t = "list"
          /\ \A i \in 1..Len(e.metadata.keywords.items) :
                e.metadata.keywords.items[i].t = "str"

CategoriesOf(list) == {list[i].metadata.category : i \in 1..Len(list)}

\* The list is answered as C10 says, allGood telling whether every entry
\* is acceptable: accepted if and only if every entry is good and the
\* categories seen are the five; otherwise an error and no chunks, the error
\* naming the missing categories when the entries are good and some
\* category is missing.
Answered(allGood) ==
    LET list == taxonomy_list
        accept == allGood /\ CategoriesOf(list) = FiveCategories
    IN  /\ build_result.ok <=> accept
        /\ build_result.ok => Len(build_result.chunks) = Len(list)
        /\ ~build_result.ok =>
            /\ build_result.error # ""
            /\ build_result.chunks = << >>
        /\ (allGood /\ CategoriesOf(list) # FiveCategories) =>
            /\ build_result.error = "Missing categories"
            /\ build_result.missing = FiveCategories \ CategoriesOf(list)

C3_FailedRunKeepsCollection ==
    ingest_failed # "none" =>
        /\ ingest_pc = "aborted"
        /\ collection = collection_before

\* C11: after a successful ingestion run the collection holds exactly the
\* documents that run produced: none of an earlier run is left and the
\* count is the count of the last run alone.
C11_CollectionIsLastRun ==
    ingest_pc = "complete" =>
        /\ collection = documents
        /\ Len(collection) = Len(build_result.chunks)
        /\ \A i \in 1..Len(collection) : collection[i].metadata.timestamp = runs

\* A second run succeeded over the collection the first run had filled.
C11_Witness ==
    /\ ingest_pc = "complete"
    /\ runs = 2
    /\ collection_before # << >>
    /\ collection # << >>

(***************************************************************************)
(* Properties of the email tools.                                          *)
(***************************************************************************)
LacksAtOrDot(e) == ~Contains(e, "@") \/ ~Contains(e, ".")

\* The entries of a comma-separated text, trimmed.
TrimmedEntries(text) ==
    LET parts == Split(text, ",")
    IN  [i \in 1..Len(parts) |-> Strip(parts[i])]

\* The same without the empty ones.
NonEmptyEntries(text) == SelectSeq(TrimmedEntries(text), LAMBDA e : Len(e) > 0)

\* The texts a tool returns for an error: those that open with "Error".
ErrorTexts ==
    { "Error: Invalid email address format: ",
      "Error: SMTP authentication failed. Check email credentials.",
      "Error: SMTP error occurred: ",
      "Error sending email: ",
      "Error sending HTML email: ",
      "Error: Invalid email addresses: ",
      "Error in bulk email: ",
      "Error: Invalid primary recipient: ",
      "Error sending email with CC/BCC: " }

\* The texts a tool returns after the SMTP session is over.
ConfirmationTexts ==
    { "Email successfully sent to ",
      "HTML email successfully sent to ",
      "Bulk email complete: sent, failed",
      "Email sent (To, CC, BCC count)" }

Called(name) == email_pc # "idle" /\ tool_call.name = name

\* C12: send_bulk_email with at least one address of the split and trimmed
\* list lacking `@` or `.` returns an error string naming every invalid
\* address, opens no SMTP connection and sends to no recipient.
C12_BulkAllOrNothing ==
    LET list == TrimmedEntries(tool_call.recipient)
    IN  (Called("send_bulk_email") /\ \E i \in 1..Len(list) : LacksAtOrDot(list[i])) =>
            /\ email_pc = "returned"
            /\ tool_result.text = "Error: Invalid email addresses: "
            /\ \A i \in 1..Len(list) :
                 LacksAtOrDot(list[i]) =>
                    \E j \in 1..Len(tool_result.names) : tool_result.names[j] = list[i]
            /\ \A j \in 1..Len(tool_result.names) : LacksAtOrDot(tool_result.names[j])
            /\ server = << >>

\* A bulk call with a well-formed address and two different invalid ones
\* has returned.
C12_Witness ==
    LET list == TrimmedEntries(tool_call.recipient)
    IN  /\ Called("send_bulk_email")
        /\ email_pc = "returned"
        /\ \E i \in 1..Len(list) : ~LacksAtOrDot(list[i])
        /\ \E i, j \in 1..Len(list) :
             list[i] # list[j] /\ LacksAtOrDot(list[i]) /\ LacksAtOrDot(list[j])

\* C13: send_simple_email, send_html_email and send_email_with_cc_bcc called
\* with a (primary) recipient lacking `@` or `.` return an error string and
\* ask nothing of the SMTP server.
C13_InvalidRecipientNoSmtp ==
    ( /\ \/ Called("send_simple_email")
         \/ Called("send_html_email")
         \/ Called("send_email_with_cc_bcc")
      /\ LacksAtOrDot(tool_call.recipient) ) =>
        /\ email_pc = "returned"
        /\ tool_result.text \in ErrorTexts
        /\ server = << >>

\* send_email_with_cc_bcc was called with an invalid primary recipient and
\* a well-formed address in cc.
C13_Witness ==
    /\ Called("send_email_with_cc_bcc")
    /\ email_pc = "returned"
    /\ LacksAtOrDot(tool_call.recipient)
    /\ \E i \in 1..Len(NonEmptyEntries(tool_call.cc)) :
         ~LacksAtOrDot(NonEmptyEntries(tool_call.cc)[i])

\* The sendmail calls made so far, done or failed.
SendMailCalls == SelectSeq(server, LAMBDA o : o.op = "sendmail")

AddressRefused ==
    IF tool_call.name = "send_bulk_email"
    THEN \E i \in 1..Len(TrimmedEntries(tool_call.recipient)) :
            LacksAtOrDot(TrimmedEntries(tool_call.recipient)[i])
    ELSE LacksAtOrDot(tool_call.recipient)

\* A step of the SMTP session raised; inLoop tells whether a sendmail of
\* the loop of send_bulk_email counts as one.
StepRaised(inLoop) ==
    \E i \in 1..Len(server) :
        /\ ~server[i].ok
        /\ inLoop \/ ~(tool_call.name = "send_bulk_email" /\ server[i].op = "sendmail")

Count(ok) == Len(SelectSeq(SendMailCalls, LAMBDA o : o.ok = ok))

\* Every call that is over has returned a text, an error text if an address
\* was refused or a step counted by inLoop raised.
ReturnsString(inLoop) ==
    /\ (email_pc # "idle" /\ (AddressRefused \/ StepRaised(FALSE))) => email_pc = "returned"
    /\ email_pc = "returned" =>
        /\ tool_result.text \in ErrorTexts \cup ConfirmationTexts
        /\ (AddressRefused \/ StepRaised(inLoop)) => tool_result.text \in ErrorTexts

\* C15 as stated: every email tool call returns a string and never raises;
\* an invalid address or an exception at any step (connect, starttls,
\* login, sendmail) gives an error string.
C15_FailureGivesErrorString == ReturnsString(TRUE)

\* C15 amended: the same, except that a sendmail that raises inside the
\* loop of send_bulk_email is counted as failed and the loop goes on: the
\* call then returns the summary with the sent and failed counts, unless
\* another step raises.
C15_FailureGivesString ==
    /\ ReturnsString(FALSE)
    /\ (Called("send_bulk_email") /\ tool_result.text = "Bulk email complete: sent, failed") =>
          /\ tool_result.counts = <<Count(TRUE), Count(FALSE)>>
          /\ Count(TRUE) + Count(FALSE) = Len(TrimmedEntries(tool_call.recipient))

\* A bulk call returned its summary after one sendmail was done and
\* another raised.
C15_Witness ==
    /\ Called("send_bulk_email")
    /\ email_pc = "returned"
    /\ tool_result.text = "Bulk email complete: sent, failed"
    /\ Count(TRUE) >= 1
    /\ Count(FALSE) >= 1

(***************************************************************************)
(* Properties of the turns of the Design A graph.                          *)
(***************************************************************************)
NodeOrder == <<"intent_classifier", "rag_executor", "router", "message_agent">>

\* C16: within a turn the nodes run in the order intent_classifier,
\* rag_executor, router, message_agent, each at most once and one at a
\* time; message_agent runs only after router chose it, and router goes
\* straight to the end only when the message list is empty.
C16_NodesInFixedOrder ==
    /\ Len(ran) <= Len(NodeOrder)
    /\ ran = SubSeq(NodeOrder, 1, Len(ran))
    /\ graph_pc \in {"intent_classifier", "rag_executor", "router", "message_agent"} =>
          graph_pc = NodeOrder[Len(ran) + 1]
    /\ (graph_pc = "message_agent" \/ Len(ran) = 4) =>
          Get(state, "next_agent", "end") = "message_agent"
    /\ (graph_pc = "end" /\ Len(ran) = 3) => Get(state, "messages", << >>) = << >>

\* The second turn of the session ran its four nodes.
C16_Witness ==
    /\ turn = 2
    /\ graph_pc = "end"
    /\ ran = NodeOrder

\* The fields a turn computes.
TurnFields == {"intent", "confidence", "next_agent", "task_description", "rag_data"}

\* C18: at the start of a turn, before its first node runs, the state holds
\* none of the fields intent, confidence, next_agent, task_description and
\* rag_data of an earlier turn: only the message history carries over.
C18_OnlyMessagesCarryOver ==
    (graph_pc = "intent_classifier" /\ ran = << >>) => DOMAIN state \cap TurnFields = {}

\* The messages of the thread.
Messages == Get(state, "messages", << >>)

IsPrefix(s, t) == Len(s) <= Len(t) /\ s = SubSeq(t, 1, Len(s))

\* C19: the message history only grows at its end: a step leaves it as it
\* is, or the start of a turn appends the turn's human message, or
\* message_agent appends exactly one ai message.
C19_HistoryAppendOnly ==
    [][ LET old == Messages
            new == Get(state', "messages", << >>)
        IN  \/ new = old
            \/ /\ graph_pc' = "intent_classifier"
               /\ new = Append(old, HumanMessage(state'["user_message"]))
            \/ /\ graph_pc = "message_agent"
               /\ Len(new) = Len(old) + 1
               /\ IsPrefix(old, new)
               /\ new[Len(new)].role = "ai"
               /\ old[Len(old)] = HumanMessage(state["user_message"]) ]_vars

\* Two turns reached message_agent, the second answered by an error report:
\* the history is human, ai, human, ai.
C19_Witness ==
    /\ turn = 2
    /\ graph_pc = "end"
    /\ Len(Messages) = 4
    /\ <<Messages[1].role, Messages[2].role, Messages[3].role, Messages[4].role>>
         = <<"human", "ai", "human", "ai">>
    /\ Messages[4] = ErrorReply

\* C20: once intent_classifier has run, the state's intent is one of the
\* six categories and its confidence is present, whatever the model
\* returned.
C20_IntentIsCategory ==
    (ran # << >> /\ graph_pc # "raised") =>
        /\ "intent" \in DOMAIN state
        /\ state["intent"] \in
             {"technical_capability", "domain_expertise", "business_trust",
              "engagement_hiring", "process_communication", "general_chat"}
        /\ "confidence" \in DOMAIN state
        /\ state["confidence"] # "None"

(***************************************************************************)
(* Properties of retrievals made while the ingestion job runs.             *)
(***************************************************************************)
\* C17: a retrieval is never held back by an ingestion run, and one made
\* after the run's delete and before its insert finds the collection empty,
\* whatever the collection held before the run and holds after it.
C17_ReadBetweenDeleteAndInsertSeesEmpty ==
    /\ Len(observed) < MaxReads => ENABLED Retrieve
    /\ \A i \in 1..Len(observed) :
         observed[i].at \in {"recreate", "add"} => observed[i].docs = << >>

\* A retrieval found the collection empty during a run that started with a
\* filled collection and ended with a filled one.
C17_Witness ==
    /\ ingest_pc = "complete"
    /\ collection_before # << >>
    /\ collection # << >>
    /\ \E i \in 1..Len(observed) :
         /\ observed[i].run = runs
         /\ observed[i].at \in {"recreate", "add"}
         /\ observed[i].docs = << >>

(***************************************************************************)
(* Properties of rag_executor.                                             *)
(***************************************************************************)
\* C21: rag_executor never raises and always leaves a list in rag_data: the
\* empty list, with no call to the vector store or to a model, when the
\* intent is empty; the empty list when opening the store, building the
\* retriever or the retrieval raised.
C21_RagExecutorAlwaysGivesList ==
    Len(ran) >= 2 =>
        /\ ran[2] = "rag_executor"
        /\ graph_pc \in {"router", "message_agent", "end"}
        /\ "rag_data" \in DOMAIN state
        /\ \E n \in 0..MaxDocs : DOMAIN state["rag_data"] = 1..n
        /\ state["intent"] = "" => (rag_calls = << >> /\ state["rag_data"] = << >>)
        /\ "rag_executor" \in failed => state["rag_data"] = << >>
        /\ state["rag_data"] = retrieved

\* In the second turn of a session whose first turn was answered, the
\* retrieval itself raised after the store and the retriever were set up.
C21_Witness ==
    /\ turn = 2
    /\ Len(ran) >= 2
    /\ "rag_executor" \in failed
    /\ rag_calls = RetrievalSteps
    /\ state["rag_data"] = << >>
    /\ \E i \in 1..Len(Messages) : Messages[i] = AIMessage("reply")

(***************************************************************************)
(* Properties of the parsing of the model's output.                        *)
(***************************************************************************)
\* The cleanup as described: typographic quotes become plain quotes, so a
\* "content" key written in them reads as one written in plain quotes, and
\* the comma before a closing brace or bracket goes.
DescribedCleanup(t) ==
    LET plain == [i \in 1..Len(t) |-> IF t[i] = "smart" THEN "content" ELSE t[i]]
    IN  DropCommaBefore(DropCommaBefore(plain, "}"), "]")

\* C22: the parsing tries an array found by pattern, then an object found by
\* pattern and wrapped as a one-element array, then the whole text; whichever
\* of the three was chosen, when it does not parse, the cleanup (quotes made
\* plain, trailing commas stripped) is applied and the parse retried once
\* before the run fails with a parse error, so the parsing gives a list
\* whenever the chosen text or its cleaned form is JSON.
C22_CleanupForEveryCandidate ==
    parse_pc = "parsed" =>
        LET chosen == IF ArrayMatch(raw) # << >> THEN ArrayMatch(raw)
                      ELSE IF ObjectMatch(raw) # << >>
                      THEN <<"[">> \o ObjectMatch(raw) \o <<"]">>
                      ELSE raw
            cleaned == DescribedCleanup(chosen)
        IN  /\ parse_result.candidate =
                 (IF ArrayMatch(raw) # << >> THEN "array"
                  ELSE IF ObjectMatch(raw) # << >> THEN "object" ELSE "direct")
            /\ parse_result.tried[1] = chosen
            /\ json_loads(chosen).ok =>
                 /\ parse_result.tried = <<chosen>>
                 /\ parse_result.ok
                 /\ parse_result.list = json_loads(chosen).value
            /\ ~json_loads(chosen).ok =>
                 /\ parse_result.ok = json_loads(cleaned).ok
                 /\ parse_result.ok => parse_result.list = json_loads(cleaned).value
                 /\ ~parse_result.ok => parse_result.error # ""

====
